---- MODULE Spec2Model ----
(***************************************************************************)
(* Entropy-production estimators (methods_EP_multipartite.py,              *)
(* methods_EP_multipartite2.py) and the maximum-entropy optimizer          *)
(* (methods_EP_parallel.py) as a state machine of calls.                   *)
(*                                                                         *)
(* Tensors are sequences (a vector) and sequences of rows (a matrix),      *)
(* 1-based in TLA+; the Python indices of the source are 0-based and are   *)
(* converted where a tensor is indexed.  Real numbers are exact rationals  *)
(* <<n, d>> in lowest terms with d > 0.                                    *)
(***************************************************************************)
EXTENDS Integers, Sequences, FiniteSets, TLC

VARIABLES op, arg, ret, frame, store

vars == <<op, arg, ret, frame, store>>

(***************************************************************************)
(* Bounds of the model.                                                    *)
(***************************************************************************)
\* largest number of spins N (rows of S) of the calls explored
MaxN == 3
\* largest number of samples T (columns of S) of the calls explored
MaxT == 2

\* the spin values of a sample matrix
Spin == {-1, 1}

(***************************************************************************)
(* Exact rational arithmetic.                                              *)
(***************************************************************************)
Abs(k) == IF k < 0 THEN -k ELSE k

RECURSIVE GCD(_, _)
GCD(a, b) == IF b = 0 THEN a ELSE GCD(b, a % b)

Rat(n, d) ==
    LET s == IF d < 0 THEN -1 ELSE 1
        g == GCD(Abs(n), Abs(d))
    IN  IF n = 0 THEN <<0, 1>> ELSE <<(s * n) \div g, (s * d) \div g>>

RInt(k) == <<k, 1>>
RAdd(p, q) ==
    LET g == GCD(p[2], q[2])
    IN  Rat(p[1] * (q[2] \div g) + q[1] * (p[2] \div g), (p[2] \div g) * q[2])
RNeg(p) == <<-p[1], p[2]>>
RSub(p, q) == RAdd(p, RNeg(q))
RMul(p, q) == Rat(p[1] * q[1], p[2] * q[2])
RDivInt(p, k) == Rat(p[1], p[2] * k)
RLess(p, q) == p[1] * q[2] < q[1] * p[2]
RGeq(p, q) == ~RLess(p, q)

RECURSIVE SumSeq(_)
SumSeq(s) == IF s = <<>> THEN 0 ELSE Head(s) + SumSeq(Tail(s))

RECURSIVE RSumSeq(_)
RSumSeq(s) == IF s = <<>> THEN RInt(0) ELSE RAdd(Head(s), RSumSeq(Tail(s)))

(***************************************************************************)
(* Python / torch indexing.                                                *)
(***************************************************************************)
\* the outcome of a call: a value, or the exception that ended it
Ok(v) == [err |-> "none", val |-> v]
Raise(e) == [err |-> e, val |-> <<>>]

\* A[k] with an integer k: in range for -n <= k < n, negative k counting from the end
IndexOK(k, n) == -n <= k /\ k < n
PyIndex(k, n) == IF k < 0 THEN k + n + 1 ELSE k + 1

\* a slice bound k clamped as Python clamps it
SliceBound(k, n) ==
    IF k < 0 THEN (IF k + n < 0 THEN 0 ELSE k + n)
    ELSE (IF k > n THEN n ELSE k)

\* A[:k] and A[k:]
SliceTo(A, k) == SubSeq(A, 1, SliceBound(k, Len(A)))
SliceFrom(A, k) == SubSeq(A, SliceBound(k, Len(A)) + 1, Len(A))

(***************************************************************************)
(* Matrix processing utilities.                                            *)
(***************************************************************************)
\* a removal whose two slices overlap at element i
remove_i_keeps(A, i) == SliceTo(A, i) \o SliceFrom(A, i)

remove_i(A, i) == SliceTo(A, i) \o SliceFrom(A, i + 1)

K_nodiag(Ks, i) ==
    LET Ks_no_row == SliceTo(Ks, i) \o SliceFrom(Ks, i + 1)
    IN  [r \in 1..Len(Ks_no_row) |->
            SliceTo(Ks_no_row[r], i) \o SliceFrom(Ks_no_row[r], i + 1)]

(***************************************************************************)
(* Vectors and matrices of rationals.                                      *)
(***************************************************************************)
Rows(M) == Len(M)
Cols(M) == IF Len(M) = 0 THEN 0 ELSE Len(M[1])

VNeg(v) == [j \in 1..Len(v) |-> RNeg(v[j])]
VSub(u, v) == [j \in 1..Len(u) |-> RSub(u[j], v[j])]
Outer(u, v) == [j \in 1..Len(u) |-> [k \in 1..Len(v) |-> RMul(u[j], v[k])]]
MSub(A, B) == [j \in 1..Rows(A) |-> [k \in 1..Cols(A) |-> RSub(A[j][k], B[j][k])]]
Trace(A) == RSumSeq([j \in 1..(IF Rows(A) < Cols(A) THEN Rows(A) ELSE Cols(A)) |-> A[j][j]])

\* A + alpha * I, the shapes agreeing as torch requires
AddScaledEye(A, alpha) ==
    [j \in 1..Rows(A) |-> [k \in 1..Cols(A) |->
        IF j = k THEN RAdd(A[j][k], alpha) ELSE A[j][k]]]

(***************************************************************************)
(* Correlation engine.                                                     *)
(***************************************************************************)
\* einsum('r,jr->j', w, S): sum over the samples r of w[r] * S[j, r]
Einsum(w, S) == [j \in 1..Len(S) |-> SumSeq([r \in 1..Len(w) |-> w[r] * S[j][r]])]

\* (4 * S) @ S.T
Gram4(S) ==
    [j \in 1..Len(S) |-> [k \in 1..Len(S) |->
        SumSeq([r \in 1..Cols(S) |-> 4 * S[j][r] * S[k][r]])]]

\* methods_EP_multipartite2.correlations
correlations(S, i) ==
    IF ~IndexOK(i, Len(S)) THEN Raise("IndexError")
    ELSE LET Si == S[PyIndex(i, Len(S))]
             e  == Einsum([r \in 1..Len(Si) |-> -2 * Si[r]], S)
         IN  Ok([j \in 1..Len(S) |-> Rat(e[j], Cols(S))])

\* methods_EP_multipartite2.correlations4
correlations4(S, i) ==
    LET G == Gram4(S)
    IN  Ok([j \in 1..Len(S) |-> [k \in 1..Len(S) |-> Rat(G[j][k], Cols(S))]])

\* Da[i] = 0
SetItem(v, i, x) == [v EXCEPT ![PyIndex(i, Len(v))] = x]

\* K[i, :] = 0 ; K[:, i] = 0
ZeroRowCol(K, i) ==
    LET p == PyIndex(i, Rows(K))
    IN  [j \in 1..Rows(K) |-> [k \in 1..Cols(K) |->
            IF j = p \/ k = p THEN RInt(0) ELSE K[j][k]]]

\* correlations averaged over the number of spins instead of T
correlations_orig_per_spin(S, T, i) ==
    IF ~IndexOK(i, Len(S)) THEN Raise("IndexError")
    ELSE LET Si == S[PyIndex(i, Len(S))]
             e  == Einsum([r \in 1..Len(Si) |-> -2 * Si[r]], S)
             Da == [j \in 1..Len(S) |-> Rat(e[j], Len(S))]
         IN  Ok(SetItem(Da, i, RInt(0)))

\* methods_EP_multipartite.correlations
correlations_orig(S, T, i) ==
    IF ~IndexOK(i, Len(S)) THEN Raise("IndexError")
    ELSE LET Si == S[PyIndex(i, Len(S))]
             e  == Einsum([r \in 1..Len(Si) |-> -2 * Si[r]], S)
             Da == [j \in 1..Len(S) |-> Rat(e[j], T)]
         IN  Ok(SetItem(Da, i, RInt(0)))

\* methods_EP_multipartite.correlations4
correlations4_orig(S, T, i) ==
    LET G == Gram4(S)
        K == [j \in 1..Len(S) |-> [k \in 1..Len(S) |-> Rat(G[j][k], T)]]
    IN  IF ~IndexOK(i, Len(S)) THEN Raise("IndexError")
        ELSE Ok(ZeroRowCol(K, i))

(***************************************************************************)
(* Regularized linear solver (methods_EP_multipartite2).                   *)
(***************************************************************************)
\* the weight 1e-4 of the adaptive regularization
AlphaScale == <<1, 10000>>

\* a solver that gives up on a matrix with a zero row, as a direct solve would
lstsq_raising(A, B) ==
    IF \E j \in 1..Rows(A) : \A k \in 1..Cols(A) : A[j][k] = RInt(0)
    THEN Raise("LinAlgError")
    ELSE Ok([len |-> Cols(A), A |-> A, B |-> B])

\* torch.linalg.lstsq(A, B).solution: the least-squares solution of A x = B,
\* a vector with one entry per column of A; it is identified by the system
\* it solves (the library computes it, and never raises for a singular A)
lstsq(A, B) == Ok([len |-> Cols(A), A |-> A, B |-> B])

adaptive_alpha(Kn) == RDivInt(RMul(AlphaScale, Trace(Kn)), Len(Kn))

solve_linear_theta(Da, Da_th, Ks_th, i) ==
    LET Dai    == remove_i(Da, i)
        Dai_th == remove_i(Da_th, i)
        Ks_no_diag_th == K_nodiag(Ks_th, i)
    IN  IF Len(Dai) # Len(Dai_th) THEN Raise("RuntimeError")
        ELSE LET rhs_th == VSub(Dai, Dai_th)
                 alpha  == adaptive_alpha(Ks_no_diag_th)
             IN  IF Rows(Ks_no_diag_th) # Cols(Ks_no_diag_th)
                    \/ Rows(Ks_no_diag_th) # Len(rhs_th)
                 THEN Raise("RuntimeError")
                 ELSE lstsq(AddScaledEye(Ks_no_diag_th, alpha), rhs_th)

(***************************************************************************)
(* Partition function estimate and EP estimators (methods_EP_multipartite2)*)
(***************************************************************************)
\* the number of entries of a vector the solver returned
VLen(v) == v.len

\* logsumexp(-thf) - log(numel(thf)) is a function of S_without_i, S[i, :]
\* and theta alone; its value is kept as that expression
log_norm_theta(S, theta, i) ==
    LET S_without_i == SliceTo(S, i) \o SliceFrom(S, i + 1)
    IN  IF ~IndexOK(i, Len(S)) THEN Raise("IndexError")
        ELSE IF VLen(theta) # Len(S_without_i) THEN Raise("RuntimeError")
        ELSE Ok([fn |-> "log_norm", rows |-> S_without_i,
                 Si |-> S[PyIndex(i, Len(S))], theta |-> theta])

\* theta @ Dai, kept as an expression of a solver result and a vector
Dot(theta, Dai) ==
    IF VLen(theta) # Len(Dai) THEN Raise("RuntimeError")
    ELSE Ok([fn |-> "dot", theta |-> theta, Dai |-> Dai])

get_EP_Newton(S, i) ==
    LET Da == correlations(S, i)
        K4 == correlations4(S, i)
    IN  IF Da.err # "none" THEN Da
        ELSE LET Ks    == MSub(K4.val, Outer(Da.val, Da.val))
                 theta == solve_linear_theta(Da.val, VNeg(Da.val), Ks, i)
             IN  IF theta.err # "none" THEN theta
                 ELSE LET Dai == remove_i(Da.val, i)
                          lnZ == log_norm_theta(S, theta.val, i)
                          sig_MTUR == Dot(theta.val, Dai)
                      IN  IF lnZ.err # "none" THEN lnZ
                          ELSE IF sig_MTUR.err # "none" THEN sig_MTUR
                          ELSE Ok([sig_N1   |-> [fn |-> "sub", a |-> sig_MTUR.val,
                                                 b |-> lnZ.val],
                                   sig_MTUR |-> sig_MTUR.val,
                                   theta    |-> theta.val,
                                   Da       |-> Da.val])

(***************************************************************************)
(* The inputs of the calls explored.                                       *)
(***************************************************************************)
Sizes == 2..MaxN
SampleMatrices(N) == UNION {[1..N -> [1..T -> Spin]] : T \in 1..MaxT}
\* every index a caller can pass: the valid ones and some on both sides
IndexRange(N) == (-(N + 1))..(N + 1)
SmallVectors(N) == [1..N -> {0, 1, 2}]
\* vectors and matrices of rationals whose entries differ with the position
VecFamily(N) ==
    {[j \in 1..N |-> RInt(p + q * j)] : p \in {0, 1}, q \in {-1, 0, 1}}
MatFamily(N) ==
    {[j \in 1..N |-> [k \in 1..N |->
        RInt((IF j = k THEN a ELSE 0) + b * (2 * j + k))]] :
            a \in {-1, 0, 2}, b \in {0, 1}}

(***************************************************************************)
(* Calls of the per-spin functions: each call is one step.                 *)
(***************************************************************************)
NoFrame == [pc |-> "idle"]
NoStore == <<>>

InitFn ==
    /\ op = "none"
    /\ arg = <<>>
    /\ ret = Ok(<<>>)
    /\ frame = NoFrame
    /\ store = NoStore

CallRemoveI ==
    /\ op = "none"
    /\ \E N \in Sizes : \E A \in SmallVectors(N) : \E i \in IndexRange(N) :
           /\ op' = "remove_i"
           /\ arg' = [N |-> N, A |-> A, i |-> i]
           /\ ret' = Ok(remove_i(A, i))
           /\ UNCHANGED <<frame, store>>

CallKNodiag ==
    /\ op = "none"
    /\ \E N \in Sizes : \E Ks \in MatFamily(N) : \E i \in IndexRange(N) :
           /\ op' = "K_nodiag"
           /\ arg' = [N |-> N, Ks |-> Ks, i |-> i]
           /\ ret' = Ok(K_nodiag(Ks, i))
           /\ UNCHANGED <<frame, store>>

CallCorrelations ==
    /\ op = "none"
    /\ \E N \in Sizes : \E S \in SampleMatrices(N) : \E i \in IndexRange(N) :
           /\ op' = "correlations"
           /\ arg' = [N |-> N, S |-> S, i |-> i]
           /\ ret' = correlations(S, i)
           /\ UNCHANGED <<frame, store>>

CallCorrelationsOrig ==
    /\ op = "none"
    /\ \E N \in Sizes : \E S \in SampleMatrices(N) : \E i \in IndexRange(N) :
           /\ op' = "correlations_orig"
           /\ arg' = [N |-> N, S |-> S, T |-> Cols(S), i |-> i]
           /\ ret' = correlations_orig(S, Cols(S), i)
           /\ UNCHANGED <<frame, store>>

CallCorrelations4Orig ==
    /\ op = "none"
    /\ \E N \in Sizes : \E S \in SampleMatrices(N) : \E i \in IndexRange(N) :
           /\ op' = "correlations4_orig"
           /\ arg' = [N |-> N, S |-> S, T |-> Cols(S), i |-> i]
           /\ ret' = correlations4_orig(S, Cols(S), i)
           /\ UNCHANGED <<frame, store>>

CallSolveLinearTheta ==
    /\ op = "none"
    /\ \E N \in Sizes : \E Da \in VecFamily(N) : \E Da_th \in VecFamily(N) :
           \E Ks_th \in MatFamily(N) : \E i \in IndexRange(N) :
               /\ op' = "solve_linear_theta"
               /\ arg' = [N |-> N, Da |-> Da, Da_th |-> Da_th, Ks_th |-> Ks_th, i |-> i]
               /\ ret' = solve_linear_theta(Da, Da_th, Ks_th, i)
               /\ UNCHANGED <<frame, store>>

CallGetEPNewton ==
    /\ op = "none"
    /\ \E N \in Sizes : \E S \in SampleMatrices(N) : \E i \in IndexRange(N) :
           /\ op' = "get_EP_Newton"
           /\ arg' = [N |-> N, S |-> S, i |-> i]
           /\ ret' = get_EP_Newton(S, i)
           /\ UNCHANGED <<frame, store>>

\* the caller takes the result; the next call starts from a clean slate
ReturnFn ==
    /\ op # "none"
    /\ op' = "none"
    /\ arg' = <<>>
    /\ ret' = Ok(<<>>)
    /\ UNCHANGED <<frame, store>>

NextFn ==
    \/ ReturnFn
    \/ CallRemoveI
    \/ CallKNodiag
    \/ CallCorrelations
    \/ CallCorrelationsOrig
    \/ CallCorrelations4Orig
    \/ CallSolveLinearTheta
    \/ CallGetEPNewton

SpecFn == InitFn /\ [][NextFn]_vars

(***************************************************************************)
(* Properties of the per-spin functions.                                   *)
(***************************************************************************)
ValidIndex == 0 <= arg.i /\ arg.i < arg.N

PerSpinOps ==
    {"remove_i", "K_nodiag", "correlations", "solve_linear_theta", "get_EP_Newton"}

\* C1: every per-spin operation called with a reference index i outside
\* [0, N) ends in an error and returns no numeric result.
C1_FailsFastOutOfRange ==
    (op \in PerSpinOps /\ ~ValidIndex) => ret.err # "none"

\* C7: for a valid i, remove_i(A, i) is A without element i and
\* K_nodiag(Ks, i) is Ks without row i and column i, the order of the rest
\* kept: entry k of the result is A[k] for k < i and A[k+1] for k >= i, and
\* entry [j, k] is Ks[j + (j >= i), k + (k >= i)] (0-based).
C7_IndexRemoval ==
    /\ (op = "remove_i" /\ ValidIndex) =>
          /\ Len(ret.val) = arg.N - 1
          /\ \A k \in 0..(arg.N - 2) :
                ret.val[k + 1] = arg.A[(IF k < arg.i THEN k ELSE k + 1) + 1]
    /\ (op = "K_nodiag" /\ ValidIndex) =>
          /\ Rows(ret.val) = arg.N - 1
          /\ \A j \in 0..(arg.N - 2) :
                /\ Len(ret.val[j + 1]) = arg.N - 1
                /\ \A k \in 0..(arg.N - 2) :
                      ret.val[j + 1][k + 1] =
                          arg.Ks[(IF j < arg.i THEN j ELSE j + 1) + 1]
                                [(IF k < arg.i THEN k ELSE k + 1) + 1]

\* a middle element, and a middle row and column, have been removed
C7_Witness ==
    \/ op = "remove_i" /\ arg.N = 3 /\ arg.i = 1 /\ arg.A = <<0, 1, 2>>
                       /\ ret.val = <<0, 2>>
    \/ op = "K_nodiag" /\ arg.N = 3 /\ arg.i = 1 /\ Rows(ret.val) = 2

\* C6: for a valid i and T the number of columns of S, the statistics of the
\* original module (entry i of Da, row and column i of Ks zeroed) and of the
\* revised module (entry i kept) give the linear solve the same inputs:
\* remove_i(Da, i) and K_nodiag(Ks - outer(Da, Da), i) agree entry for entry
\* and so does the solve; and solve_linear_theta's result does not change
\* when entry i of Da and Da_th and row and column i of Ks_th are overwritten.
C6_VersionsAgree ==
    /\ (op = "get_EP_Newton" /\ ValidIndex) =>
          LET S   == arg.S
              T   == Cols(S)
              Da1 == correlations_orig(S, T, arg.i).val
              K1  == MSub(correlations4_orig(S, T, arg.i).val, Outer(Da1, Da1))
              Da2 == ret.val.Da
              K2  == MSub(correlations4(S, arg.i).val, Outer(Da2, Da2))
          IN  /\ ret.err = "none"
              /\ remove_i(Da1, arg.i) = remove_i(Da2, arg.i)
              /\ K_nodiag(K1, arg.i) = K_nodiag(K2, arg.i)
              /\ solve_linear_theta(Da1, VNeg(Da1), K1, arg.i) = Ok(ret.val.theta)
    /\ (op = "solve_linear_theta" /\ ValidIndex) =>
          \A x \in {RInt(0), RInt(7)} :
              ret = solve_linear_theta(SetItem(arg.Da, arg.i, x),
                                       SetItem(arg.Da_th, arg.i, RNeg(x)),
                                       ZeroRowCol(arg.Ks_th, arg.i), arg.i)

\* the revised module kept a nonzero self-correlation that the original zeroed
C6_Witness ==
    /\ op = "get_EP_Newton" /\ ValidIndex /\ arg.N = 3 /\ Cols(arg.S) = 2
    /\ ret.err = "none"
    /\ ret.val.Da[arg.i + 1] # RInt(0)
    /\ correlations_orig(arg.S, 2, arg.i).val[arg.i + 1] = RInt(0)
    /\ ret.val.theta.len = 2

(***************************************************************************)
(* solve_linear_theta step by step: the retry loop of the original module  *)
(* and the single least-squares solve of the revised one.                  *)
(***************************************************************************)
\* the starting epsilon, 1e-6, of the original module
Epsilon0 == <<1, 1000000>>

\* a rational that is a whole number of millionths, as that number
Micro(q) == q[1] * (1000000 \div q[2])

RECURSIVE Det(_)
Det(M) ==
    IF Len(M) = 0 THEN 1
    ELSE IF Len(M) = 1 THEN M[1][1]
    ELSE SumSeq([c \in 1..Len(M) |->
            (IF c % 2 = 1 THEN 1 ELSE -1) * M[1][c]
            * Det([r \in 1..(Len(M) - 1) |->
                    SubSeq(M[r + 1], 1, c - 1) \o SubSeq(M[r + 1], c + 1, Len(M))])])

\* torch.linalg.solve raises _LinAlgError exactly when the matrix is singular
LinAlgError(M) ==
    Det([j \in 1..Rows(M) |-> [k \in 1..Cols(M) |-> Micro(M[j][k])]]) = 0

\* torch.linalg.solve(A, B): the solution of A x = B, identified by the system
solve(A, B) == Ok([len |-> Cols(A), A |-> A, B |-> B])

increase_epsilon_by_two(epsilon) == RMul(epsilon, RInt(2))

\* epsilon *= 10
increase_epsilon(epsilon) == RMul(epsilon, RInt(10))

\* curvature matrices with eigenvalues at and near -1e-6 and -1e-5
MatFamilyOrig(N) ==
    {[j \in 1..N |-> [k \in 1..N |->
        IF j = k THEN Rat(d[j], 1000000) ELSE Rat(c, 1000000)]] :
            d \in [1..N -> {-10, -1, 0}], c \in {0, 1}}

SolveInputs(N) ==
    {[N |-> N, Da |-> Da, Da_th |-> (IF z THEN [j \in 1..N |-> RInt(0)] ELSE VNeg(Da)),
      i |-> i] : Da \in VecFamily(N), z \in BOOLEAN, i \in 0..(N - 1)}

InitSolve ==
    /\ op = "none"
    /\ arg = <<>>
    /\ ret = Ok(<<>>)
    /\ frame = NoFrame
    /\ store = NoStore

\* methods_EP_multipartite.solve_linear_theta, lines 102-108
SolveOrigEnter ==
    /\ op = "none"
    /\ \E N \in Sizes : \E a \in SolveInputs(N) : \E Ks_th \in MatFamilyOrig(N) :
           /\ op' = "solve_linear_theta_orig"
           /\ arg' = [N |-> N, Da |-> a.Da, Da_th |-> a.Da_th, Ks_th |-> Ks_th, i |-> a.i]
           /\ frame' = [pc |-> "loop", attempt |-> 0,
                        Ks_no_diag_th |-> K_nodiag(Ks_th, a.i),
                        rhs_th |-> VSub(remove_i(a.Da, a.i), remove_i(a.Da_th, a.i)),
                        reg |-> Epsilon0]
           /\ UNCHANGED <<ret, store>>

\* lines 110-116: the solve raised, epsilon grows and the loop goes round
SolveOrigRetry ==
    /\ op = "solve_linear_theta_orig"
    /\ frame.pc = "loop"
    /\ LinAlgError(AddScaledEye(frame.Ks_no_diag_th, frame.reg))
    /\ frame' = [frame EXCEPT !.attempt = @ + 1, !.reg = increase_epsilon(@)]
    /\ UNCHANGED <<op, arg, ret, store>>

\* lines 110-113 and 118: the solve succeeded, break and return dtheta
SolveOrigBreak ==
    /\ op = "solve_linear_theta_orig"
    /\ frame.pc = "loop"
    /\ ~LinAlgError(AddScaledEye(frame.Ks_no_diag_th, frame.reg))
    /\ frame' = [frame EXCEPT !.attempt = @ + 1, !.pc = "done"]
    /\ ret' = solve(AddScaledEye(frame.Ks_no_diag_th, frame.reg), frame.rhs_th)
    /\ UNCHANGED <<op, arg, store>>

\* methods_EP_multipartite2.solve_linear_theta, lines 102-110
SolveEnter ==
    /\ op = "none"
    /\ \E N \in Sizes : \E a \in SolveInputs(N) :
           \E Ks_th \in MatFamily(N) :
               /\ op' = "solve_linear_theta"
               /\ arg' = [N |-> N, Da |-> a.Da, Da_th |-> a.Da_th, Ks_th |-> Ks_th,
                          i |-> a.i]
               /\ frame' = [pc |-> "lstsq", attempt |-> 0,
                            Ks_no_diag_th |-> K_nodiag(Ks_th, a.i),
                            rhs_th |-> VSub(remove_i(a.Da, a.i), remove_i(a.Da_th, a.i)),
                            reg |-> adaptive_alpha(K_nodiag(Ks_th, a.i))]
               /\ UNCHANGED <<ret, store>>

\* lines 111 and 124: the one least-squares solve, then return dtheta
SolveLstsq ==
    /\ op = "solve_linear_theta"
    /\ frame.pc = "lstsq"
    /\ LET r == lstsq(AddScaledEye(frame.Ks_no_diag_th, frame.reg), frame.rhs_th)
       IN  /\ ret' = r
           /\ frame' = [frame EXCEPT !.attempt = @ + 1,
                                     !.pc = IF r.err = "none" THEN "done" ELSE "raised"]
    /\ UNCHANGED <<op, arg, store>>

\* the caller takes dtheta (or the exception)
SolveReturn ==
    /\ frame.pc \in {"done", "raised"}
    /\ op' = "none"
    /\ arg' = <<>>
    /\ ret' = Ok(<<>>)
    /\ frame' = NoFrame
    /\ UNCHANGED store

NextSolve ==
    \/ SolveOrigEnter
    \/ SolveOrigRetry
    \/ SolveOrigBreak
    \/ SolveEnter
    \/ SolveLstsq
    \/ SolveReturn

SpecSolve == InitSolve /\ [][NextSolve]_vars

(***************************************************************************)
(* Properties of the linear solver.                                        *)
(***************************************************************************)
RECURSIVE Pow10(_)
Pow10(k) == IF k = 0 THEN 1 ELSE 10 * Pow10(k - 1)

\* the epsilon of the k-th attempt of the original loop: 1e-6 * 10^(k-1)
EpsilonOfAttempt(k) == Rat(Pow10(k - 1), 1000000)

\* C9: the revised solve_linear_theta has no retry path: on every input,
\* singular Ks_th included, it computes alpha = 1e-4 * trace(Ks_th_nodiag) /
\* (N-1) once, performs exactly one least-squares solve of
\* (Ks_th_nodiag + alpha*I) dtheta = Da_i - Da_th_i and returns a dtheta of
\* length N-1, without looping and without raising.
C9_SingleLeastSquaresSolve ==
    op = "solve_linear_theta" =>
        LET Kn  == K_nodiag(arg.Ks_th, arg.i)
            rhs == VSub(remove_i(arg.Da, arg.i), remove_i(arg.Da_th, arg.i))
            alpha == RDivInt(RMul(<<1, 10000>>, Trace(Kn)), arg.N - 1)
        IN  /\ frame.pc \in {"lstsq", "done"}
            /\ frame.attempt = (IF frame.pc = "done" THEN 1 ELSE 0)
            /\ frame.reg = alpha
            /\ frame.pc = "done" =>
                  /\ ret.err = "none"
                  /\ ret.val.len = arg.N - 1
                  /\ ret.val.A = AddScaledEye(Kn, alpha)
                  /\ ret.val.B = rhs

\* the one solve was of a singular system (alpha = 0 on a zero matrix)
C9_Witness ==
    /\ op = "solve_linear_theta" /\ frame.pc = "done" /\ frame.attempt = 1
    /\ arg.N = 3
    /\ frame.reg = RInt(0)
    /\ \A j \in 1..2 : \A k \in 1..2 : ret.val.A[j][k] = RInt(0)
    /\ ret.val.len = 2

\* C10: in the original solve_linear_theta epsilon starts at 1e-6 and is
\* multiplied by 10 after each solve that fails as singular, so the k-th
\* attempt solves with epsilon = 1e-6 * 10^(k-1), Ks_no_diag_th and rhs_th
\* staying as they were; the loop is left only by the first solve that
\* succeeds: while every attempt so far has failed the call has not returned,
\* and a returned call had exactly its last attempt succeed.
C10_RetryLoop ==
    op = "solve_linear_theta_orig" =>
        LET Kn  == K_nodiag(arg.Ks_th, arg.i)
            rhs == VSub(remove_i(arg.Da, arg.i), remove_i(arg.Da_th, arg.i))
            Failed(k) == LinAlgError(AddScaledEye(Kn, EpsilonOfAttempt(k)))
        IN  /\ frame.Ks_no_diag_th = Kn
            /\ frame.rhs_th = rhs
            /\ frame.pc \in {"loop", "done"}
            /\ frame.pc = "loop" =>
                  /\ frame.reg = EpsilonOfAttempt(frame.attempt + 1)
                  /\ \A k \in 1..frame.attempt : Failed(k)
            /\ frame.pc = "done" =>
                  /\ frame.attempt >= 1
                  /\ frame.reg = EpsilonOfAttempt(frame.attempt)
                  /\ \A k \in 1..(frame.attempt - 1) : Failed(k)
                  /\ ~Failed(frame.attempt)
                  /\ ret = solve(AddScaledEye(Kn, frame.reg), rhs)

\* two attempts failed as singular and the third, with epsilon = 1e-4, returned
C10_Witness ==
    /\ op = "solve_linear_theta_orig" /\ frame.pc = "done"
    /\ frame.attempt = 3
    /\ frame.reg = <<1, 10000>>
    /\ ret.err = "none"

(***************************************************************************)
(* Maximum-entropy optimizer (methods_EP_parallel).                        *)
(***************************************************************************)
\* an optional argument: None, or the value given
None == <<>>
Some(v) == <<v>>

\* the number N(N-1)/2 of free parameters of an antisymmetric N x N matrix
NumParams(N) == (N * (N - 1)) \div 2

Zeros(n) == [j \in 1..n |-> 0]

\* a tensor with its number of dimensions: a 1-D compressed vector, or a 2-D
\* matrix given by its rows
Tensor1(v) == [dim |-> 1, data |-> v]
Tensor2(m) == [dim |-> 2, data |-> m]

RECURSIVE Flatten(_)
Flatten(m) == IF m = <<>> THEN <<>> ELSE Head(m) \o Flatten(Tail(m))

\* the place, counting row by row from 1, of the off-diagonal slot (j, k)
OffDiagSlot(j, k, N) == (j - 1) * (N - 1) + (IF k < j THEN k ELSE k - 1)

expand_theta(theta) ==
    IF theta.dim # 2 THEN Raise("ValueError")
    ELSE LET N    == Rows(theta.data)
             flat == Flatten(theta.data)
         IN  IF Len(flat) # N * (N - 1) /\ Len(flat) # 1 THEN Raise("RuntimeError")
             ELSE Ok([j \in 1..N |-> [k \in 1..N |->
                        IF j = k THEN 0
                        ELSE IF Len(flat) = 1 THEN flat[1]
                        ELSE flat[OffDiagSlot(j, k, N)]]])

\* the place of the pair (j, k), j < k, in torch.triu_indices(N, N, offset=1)
TriuSlot(j, k, N) == (j - 1) * N - ((j * (j - 1)) \div 2) + (k - j)

\* th[triu_indices[0], triu_indices[1]] = theta, on th = zeros((N, N))
upper_triangular(theta, N) ==
    [j \in 1..N |-> [k \in 1..N |->
        IF j < k THEN (IF Len(theta) = 1 THEN theta[1] ELSE theta[TriuSlot(j, k, N)])
        ELSE 0]]

\* th - th.T
MinusTranspose(th) ==
    [j \in 1..Rows(th) |-> [k \in 1..Rows(th) |-> th[j][k] - th[k][j]]]

\* A @ S
MatMul(A, S) ==
    [j \in 1..Rows(A) |-> [r \in 1..Cols(S) |->
        SumSeq([k \in 1..Rows(S) |-> A[j][k] * S[k][r]])]]

\* torch.sum(S1 * thS, axis=0)
ColumnSums(S1, thS) ==
    [r \in 1..Cols(thS) |-> SumSeq([j \in 1..Rows(thS) |-> S1[j][r] * thS[j][r]])]

\* the full matrix of MaxEntObjective.forward: th - th.T, th upper triangular
full_matrix(theta, N) == MinusTranspose(upper_triangular(theta, N))

\* MaxEntObjective.forward: sig is a function of thf_odd and N alone and is
\* kept as that expression
MaxEntObjective(theta, S, S1) ==
    LET N == Rows(S)
    IN  IF Len(theta) # NumParams(N) /\ Len(theta) # 1 THEN Raise("RuntimeError")
        ELSE LET thS     == MatMul(full_matrix(theta, N), S)
                 thf_odd == ColumnSums(S1, thS)
             IN  Ok([fn |-> "sig", thf_odd |-> thf_odd, N |-> N])

\* the negative of a value: -(-v) is v
Neg(v) == IF v.fn = "neg" THEN v.a ELSE [fn |-> "neg", a |-> v]

\* f = lambda theta: -obj_fn(theta, S, S1)
negated_objective(theta, S, S1) ==
    LET sig == MaxEntObjective(theta, S, S1)
    IN  IF sig.err # "none" THEN sig ELSE Ok(Neg(sig.val))

\* x.norm(p=2) ** 2
NormSquared(x) == SumSeq([j \in 1..Len(x) |-> x[j] * x[j]])

\* the loss of the closure: objective + lambda_ * ||x||^2
closure(fx, x, lambda_) ==
    [fn |-> "add", a |-> fx, reg |-> RMul(lambda_, RInt(NormSquared(x)))]

cur_obj_regularized(fx, x, lambda_) == closure(fx, x, lambda_)

\* cur_obj = f(x).item(): the objective alone
cur_obj(fx, x, lambda_) == fx

\* the tolerance 1e-6
MinTol == <<1, 1000000>>

clamp_tol_floor(tol) ==
    IF tol = None \/ ~RGeq(tol[1], MinTol) THEN MinTol ELSE tol[1]

\* if tol is None or tol >= 1e-6: tol = 1e-6
clamp_tol(tol) ==
    IF tol = None \/ RGeq(tol[1], MinTol) THEN MinTol ELSE tol[1]

\* the iteration cap of minimize2 when the caller gives none
DefaultMaxIter == 20
\* the iteration cap get_torchmin_args sets
ArgsMaxIter == 50
\* the tolerance per parameter, 1e-4, when the caller gives none
DefaultTolPerParam == <<1, 10000>>
\* the regularization weight, 0.01, when the caller gives none
DefaultLambda == <<1, 100>>

\* the iterates LBFGS.step may leave in x: the library decides, within n entries
Iterates(n) ==
    {Zeros(n)} \cup {[j \in 1..n |-> IF j = k THEN c ELSE 0] : k \in 1..n, c \in {-1, 1}}
               \cup {[j \in 1..n |-> c] : c \in {-1, 1}}

\* minimize2 with f = -obj_fn(., S, S1) when negate, obj_fn(., S, S1) otherwise;
\* xf is the iterate the optimizer ends on, and locals are the locals at return
minimize2(negate, S, S1, x0, max_iter, tol, lambda_, xf) ==
    LET f(x) == IF negate THEN negated_objective(x, S, S1)
                ELSE MaxEntObjective(x, S, S1)
        lbfgs == [lr |-> <<1, 10>>, max_iter |-> max_iter, history_size |-> 1,
                  tolerance_change |-> clamp_tol(tol),
                  line_search_fn |-> "strong_wolfe"]
        \* the closure is evaluated at x0 first, and raises if f does
        first == f(x0)
        x     == IF max_iter = 0 THEN x0 ELSE xf
        last  == f(x)
    IN  IF first.err # "none" THEN [res |-> first, locals |-> [lbfgs |-> lbfgs, x0 |-> x0]]
        ELSE [res |-> Ok([fun |-> cur_obj(last.val, x, lambda_), x |-> x]),
              locals |-> [lbfgs |-> lbfgs, x0 |-> x0,
                          loss |-> closure(last.val, x, lambda_)]]

get_torchmin_args(S, tol_per_param) ==
    LET tpp == IF tol_per_param = None THEN DefaultTolPerParam ELSE tol_per_param[1]
        N   == Rows(S)
    IN  [x0 |-> Zeros(N - 1), method |-> "l-bfgs",
         tol |-> Some(RDivInt(tpp, N)), max_iter |-> ArgsMaxIter]

get_torch(S, S1, max_iter, tol_per_param, lambda_, xf) ==
    LET N     == Rows(S)
        args0 == get_torchmin_args(S, tol_per_param)
        args  == [args0 EXCEPT !.x0 = Zeros(NumParams(N))]
        m     == minimize2(TRUE, S, S1, args.x0, args.max_iter, args.tol, lambda_, xf)
    IN  IF m.res.err # "none" THEN m
        ELSE [res |-> Ok(Neg(m.res.val.fun)),
              locals |-> [m.locals EXCEPT !.x0 = args.x0] @@ [res |-> m.res.val]]

(***************************************************************************)
(* Calls of the optimizer: each call is one step.                          *)
(***************************************************************************)
\* sample matrices of N spins and T samples
OptSamples(N) ==
    UNION {{[j \in 1..N |-> [r \in 1..T |-> IF (j + r) % 2 = 0 THEN 1 ELSE -1]],
            [j \in 1..N |-> [r \in 1..T |-> IF j <= r THEN 1 ELSE -1]]} :
                T \in 1..MaxT}
\* the companion matrix: S with one spin flipped in every sample, or -S
Companions(S) ==
    {[j \in 1..Rows(S) |-> [r \in 1..Cols(S) |->
        IF j = f \/ f = 0 THEN -S[j][r] ELSE S[j][r]]] : f \in {0, 1, Rows(S)}}
FlipFirst(S) ==
    [j \in 1..Rows(S) |-> [r \in 1..Cols(S) |-> IF j = 1 THEN -S[j][r] ELSE S[j][r]]]
ParamVectors(N) == [1..NumParams(N) -> {-1, 0, 1}]
ParamMatrices(N) == [1..N -> [1..(N - 1) -> {0, 1}]]
MaxIters == {None, Some(0), Some(5), Some(50)}
Tols == {None, Some(<<1, 10000000>>), Some(MinTol), Some(<<1, 10000>>), Some(RInt(0))}
Lambdas == {None, Some(RInt(0)), Some(RInt(1))}

Default(opt, d) == IF opt = None THEN d ELSE opt[1]

InitOpt ==
    /\ op = "none"
    /\ arg = <<>>
    /\ ret = Ok(<<>>)
    /\ frame = NoFrame
    /\ store = NoStore

CallExpandTheta ==
    /\ op = "none"
    /\ \E N \in Sizes :
           \E theta \in {Tensor1(v) : v \in ParamVectors(N)}
                        \cup {Tensor2(m) : m \in ParamMatrices(N)} :
               /\ op' = "expand_theta"
               /\ arg' = [N |-> N, theta |-> theta]
               /\ ret' = expand_theta(theta)
               /\ UNCHANGED <<frame, store>>

CallMaxEntObjective ==
    /\ op = "none"
    /\ \E N \in Sizes : \E theta \in ParamVectors(N) : \E S \in OptSamples(N) :
           \E S1 \in Companions(S) :
               /\ op' = "MaxEntObjective"
               /\ arg' = [N |-> N, theta |-> theta, S |-> S, S1 |-> S1]
               /\ ret' = MaxEntObjective(theta, S, S1)
               /\ frame' = [pc |-> "returned",
                            locals |-> [full |-> full_matrix(theta, N)]]
               /\ UNCHANGED store

CallMinimize2 ==
    /\ op = "none"
    /\ \E N \in Sizes : \E S \in OptSamples(N) : \E S1 \in {FlipFirst(S)} :
           \E negate \in BOOLEAN : \E x0 \in {Zeros(NumParams(N)), [j \in 1..NumParams(N) |-> 1]} :
               \E max_iter \in MaxIters : \E tol \in Tols : \E lambda_ \in Lambdas :
                   \E xf \in Iterates(NumParams(N)) :
                       LET m == minimize2(negate, S, S1, x0, Default(max_iter, DefaultMaxIter),
                                          tol, Default(lambda_, DefaultLambda), xf)
                       IN  /\ op' = "minimize2"
                           /\ arg' = [N |-> N, negate |-> negate, S |-> S, S1 |-> S1,
                                      x0 |-> x0, max_iter |-> max_iter, tol |-> tol,
                                      lambda_ |-> lambda_]
                           /\ ret' = m.res
                           /\ frame' = [pc |-> "returned", locals |-> m.locals]
                           /\ UNCHANGED store

CallGetTorch ==
    /\ op = "none"
    /\ \E N \in Sizes : \E S \in OptSamples(N) : \E S1 \in Companions(S) :
           \E max_iter \in MaxIters : \E tol_per_param \in Tols : \E lambda_ \in Lambdas :
               \E xf \in Iterates(NumParams(N)) :
                   LET m == get_torch(S, S1, max_iter, tol_per_param,
                                      Default(lambda_, DefaultLambda), xf)
                   IN  /\ op' = "get_torch"
                       /\ arg' = [N |-> N, S |-> S, S1 |-> S1, max_iter |-> max_iter,
                                  tol_per_param |-> tol_per_param, lambda_ |-> lambda_]
                       /\ ret' = m.res
                       /\ frame' = [pc |-> "returned", locals |-> m.locals]
                       /\ UNCHANGED store

ReturnOpt ==
    /\ op # "none"
    /\ op' = "none"
    /\ arg' = <<>>
    /\ ret' = Ok(<<>>)
    /\ frame' = NoFrame
    /\ UNCHANGED store

NextOpt ==
    \/ CallExpandTheta
    \/ CallMaxEntObjective
    \/ CallMinimize2
    \/ CallGetTorch
    \/ ReturnOpt

SpecOpt == InitOpt /\ [][NextOpt]_vars

(***************************************************************************)
(* Properties of the optimizer.                                            *)
(***************************************************************************)
Antisymmetric(M, N) ==
    /\ Rows(M) = N
    /\ \A j \in 1..N : Len(M[j]) = N
    /\ \A j \in 1..N : \A k \in 1..N : M[j][k] = -M[k][j]

\* C2: for every N >= 2 and every compressed parameter vector of the valid
\* length N(N-1)/2, the full matrix expand_theta produces, and the one the
\* MaxEntObjective builder produces (th - th.T), is antisymmetric with a
\* zero diagonal.
C2_AntisymmetricFullMatrix ==
    /\ (op = "expand_theta" /\ arg.theta.dim = 1) =>
          /\ ret.err = "none"
          /\ Antisymmetric(ret.val, arg.N)
    /\ op = "MaxEntObjective" =>
          /\ ret.err = "none"
          /\ Antisymmetric(frame.locals.full, arg.N)

\* C3: get_torch hands the optimizer the caller's max_iter as the iteration
\* cap when max_iter is given and the cap 50 of get_torchmin_args only when
\* it is None; the start vector is all zeros of length N(N-1)/2.
C3_CallerIterationCap ==
    op = "get_torch" =>
        /\ frame.locals.lbfgs.max_iter =
              (IF arg.max_iter = None THEN 50 ELSE arg.max_iter[1])
        /\ frame.locals.x0 = Zeros(NumParams(arg.N))

\* C4: minimize2 returns a Result whose fun is f at the returned x without
\* the lambda_ * ||x||^2 term, which only the closure's loss carries; and
\* get_torch returns MaxEntObjective(res.x, S, S1) with its original sign.
C4_UnregularizedResult ==
    /\ (op = "minimize2" /\ ret.err = "none") =>
          LET fx == IF arg.negate THEN negated_objective(ret.val.x, arg.S, arg.S1)
                    ELSE MaxEntObjective(ret.val.x, arg.S, arg.S1)
          IN  /\ ret.val.fun = fx.val
              /\ frame.locals.loss.a = fx.val
              /\ frame.locals.loss.reg =
                    RMul(Default(arg.lambda_, <<1, 100>>), RInt(NormSquared(ret.val.x)))
    /\ (op = "get_torch" /\ ret.err = "none") =>
          /\ ret.val = MaxEntObjective(frame.locals.res.x, arg.S, arg.S1).val
          /\ ret.val.fn = "sig"

\* the optimizer ended away from zero with a nonzero regularization term in
\* the loss, and the value returned is the objective alone
C4_Witness ==
    /\ op = "get_torch" /\ ret.err = "none" /\ arg.N = 3
    /\ frame.locals.res.x = <<1, 0, 0>>
    /\ frame.locals.loss.reg = <<1, 100>>
    /\ frame.locals.res.fun.fn = "neg"
    /\ ret.val.fn = "sig"
    /\ \E r \in 1..Len(ret.val.thf_odd) : ret.val.thf_odd[r] # 0

CallerNames == <<"S", "S1", "Da", "Da_th", "Ks_th", "theta_lin", "x0">>
NumCaller == Len(CallerNames)
CallerMatrices == {1, 2}
CallerVectors == {3, 4, 6, 7}

RECURSIVE Exec(_, _, _)
Exec(prog, env, st) ==
    IF prog = <<>> THEN st
    ELSE LET ins == Head(prog)
         IN  IF ins[1] = "new"
             THEN Exec(Tail(prog), (ins[2] :> (Len(st) + 1)) @@ env, Append(st, 0))
             ELSE IF ins[1] = "view"
             THEN Exec(Tail(prog), (ins[2] :> env[ins[3]]) @@ env, st)
             ELSE Exec(Tail(prog), env, [st EXCEPT ![env[ins[2]]] = @ + 1])

\* methods_EP_multipartite2.correlations: Da = einsum(-2 * S[i, :], S) / T
correlations_body(S, Da) ==
    << <<"view", "Si", S>>, <<"new", "w">>, <<"new", Da>> >>

\* methods_EP_multipartite.correlations: the same, then Da[i] = 0
correlations_orig_body(S, Da) ==
    correlations_body(S, Da) \o << <<"write", Da>> >>

\* methods_EP_multipartite2.correlations4: K = (4 * S) @ S.T / T
correlations4_body(S, K) ==
    << <<"new", "S4">>, <<"view", "ST", S>>, <<"new", K>> >>

\* methods_EP_multipartite.correlations4: the same, then K[i, :] = 0; K[:, i] = 0
correlations4_orig_body(S, K) ==
    correlations4_body(S, K) \o << <<"write", K>>, <<"write", K>> >>

\* thf = (-2 * S[i, :]) * matmul(theta, cat((S[:i, :], S[i+1:, :])))
thf_body(S, theta) ==
    << <<"view", "head", S>>, <<"view", "tail", S>>, <<"new", "S_without_i">>,
       <<"view", "Si", S>>, <<"new", "thf">> >>

\* methods_EP_multipartite2.correlations_theta
correlations_theta_body(S, theta, Da) ==
    thf_body(S, theta) \o << <<"new", "S1_S">>, <<"new", Da>> >>

\* methods_EP_multipartite.correlations_theta: the same, then Da[i] = 0
correlations_theta_orig_body(S, theta, Da) ==
    correlations_theta_body(S, theta, Da) \o << <<"write", Da>> >>

\* methods_EP_multipartite2.correlations4_theta
correlations4_theta_body(S, theta, K) ==
    thf_body(S, theta) \o << <<"new", "wS">>, <<"view", "ST", S>>, <<"new", K>> >>

\* methods_EP_multipartite.correlations4_theta: the same, then K[i, :] = 0; K[:, i] = 0
correlations4_theta_orig_body(S, theta, K) ==
    correlations4_theta_body(S, theta, K) \o << <<"write", K>>, <<"write", K>> >>

\* log_norm_theta
log_norm_theta_body(S, theta, lnZ) ==
    thf_body(S, theta) \o << <<"new", lnZ>> >>

\* remove_i: torch.cat((A[:i], A[i+1:]))
remove_i_body(A, r) ==
    << <<"view", "head", A>>, <<"view", "tail", A>>, <<"new", r>> >>

\* K_nodiag
K_nodiag_body(Ks, r) ==
    << <<"view", "head", Ks>>, <<"view", "tail", Ks>>, <<"new", "Ks_no_row">>,
       <<"view", "head", "Ks_no_row">>, <<"view", "tail", "Ks_no_row">>, <<"new", r>> >>

\* methods_EP_multipartite2.solve_linear_theta
solve_linear_theta_body(Da, Da_th, Ks_th, dtheta) ==
    remove_i_body(Da, "Dai") \o remove_i_body(Da_th, "Dai_th")
    \o K_nodiag_body(Ks_th, "Ks_no_diag_th")
    \o << <<"new", "rhs_th">>, <<"new", "I">>, <<"new", "alpha">>, <<"new", "M">>,
          <<"new", dtheta>> >>

\* methods_EP_multipartite2.get_EP_Newton, with Ks -= einsum(Da, Da) in place
get_EP_Newton_body(S) ==
    correlations_body(S, "Da_") \o correlations4_body(S, "Ks")
    \o << <<"new", "outer">>, <<"write", "Ks">>, <<"new", "negDa">> >>
    \o solve_linear_theta_body("Da_", "negDa", "Ks", "theta")
    \o remove_i_body("Da_", "Dai") \o log_norm_theta_body(S, "theta", "lnZ")
    \o << <<"new", "sig_MTUR">> >> \o remove_i_body("Da_", "Dai")
    \o << <<"new", "sig_N1">> >>

\* methods_EP_multipartite2.get_EP_Newton2, with Da_th /= Z in place
get_EP_Newton2_body(S, theta_lin, Da) ==
    correlations_theta_body(S, theta_lin, "Da_th_")
    \o correlations4_theta_body(S, theta_lin, "Ks_th0")
    \o log_norm_theta_body(S, theta_lin, "lnZ")
    \o << <<"new", "Z">>, <<"write", "Da_th_">>, <<"new", "outer">>,
          <<"new", "Ks_th_">> >>
    \o solve_linear_theta_body(Da, "Da_th_", "Ks_th_", "theta_lin2")
    \o << <<"new", "theta">> >> \o remove_i_body(Da, "Dai")
    \o << <<"new", "t_min">> >> \o log_norm_theta_body(S, "theta", "lnZ")
    \o << <<"new", "sig_N2">> >>

\* MaxEntObjective.forward, with th[triu_indices] = theta in place on zeros
MaxEntObjective_body(theta, S, S1, sig) ==
    << <<"new", "th">>, <<"new", "triu_indices">>, <<"write", "th">>,
       <<"view", "thT", "th">>, <<"new", "full">>, <<"new", "thS">>,
       <<"new", "thf_odd">>, <<"new", "thf_min">>, <<"new", sig>> >>

clone_detach_shared(x, x0) == << <<"view", x, x0>> >>

\* x = x0.clone().detach().requires_grad_(True)
clone_detach(x, x0) == << <<"new", "clone">>, <<"view", x, "clone">> >>

\* the closure, run by lbfgs.step, which then updates x in place
lbfgs_step_body(x, S, S1) ==
    MaxEntObjective_body(x, S, S1, "objective")
    \o << <<"new", "reg_term">>, <<"new", "loss">>, <<"new", "grad">>,
          <<"write", x>> >>

\* minimize2 on f = -obj_fn(., S, S1)
minimize2_body(x0, S, S1) ==
    clone_detach("x", x0) \o lbfgs_step_body("x", S, S1)
    \o MaxEntObjective_body("x", S, S1, "cur_obj")
    \o << <<"view", "xd", "x">>, <<"new", "res_x">> >>

\* get_torch
get_torch_body(S, S1) ==
    << <<"new", "args_x0">>, <<"new", "x0_">> >> \o minimize2_body("x0_", S, S1)
    \o << <<"new", "abs">>, <<"new", "max_theta">> >>

\* the calls a caller can make, on the tensors it holds
Programs ==
    {[op |-> "correlations", prog |-> correlations_body(CallerNames[s], "Da_"),
      arg |-> <<s>>] : s \in CallerMatrices}
    \cup {[op |-> "correlations_orig", prog |-> correlations_orig_body(CallerNames[s], "Da_"),
           arg |-> <<s>>] : s \in CallerMatrices}
    \cup {[op |-> "correlations4", prog |-> correlations4_body(CallerNames[s], "K"),
           arg |-> <<s>>] : s \in CallerMatrices}
    \cup {[op |-> "correlations4_orig", prog |-> correlations4_orig_body(CallerNames[s], "K"),
           arg |-> <<s>>] : s \in CallerMatrices}
    \cup {[op |-> oo[1],
           prog |-> (IF oo[2] = 1 THEN correlations_theta_body(CallerNames[s], CallerNames[t], "D")
                     ELSE IF oo[2] = 2 THEN correlations_theta_orig_body(CallerNames[s], CallerNames[t], "D")
                     ELSE IF oo[2] = 3 THEN correlations4_theta_body(CallerNames[s], CallerNames[t], "K")
                     ELSE correlations4_theta_orig_body(CallerNames[s], CallerNames[t], "K")),
           arg |-> <<s, t>>] :
              s \in CallerMatrices, t \in CallerVectors,
              oo \in {<<"correlations_theta", 1>>, <<"correlations_theta_orig", 2>>,
                      <<"correlations4_theta", 3>>, <<"correlations4_theta_orig", 4>>}}
    \cup {[op |-> "solve_linear_theta",
           prog |-> solve_linear_theta_body(CallerNames[a], CallerNames[b], "Ks_th", "dtheta"),
           arg |-> <<a, b, 5>>] : a \in CallerVectors, b \in CallerVectors}
    \cup {[op |-> "get_EP_Newton", prog |-> get_EP_Newton_body(CallerNames[s]),
           arg |-> <<s>>] : s \in CallerMatrices}
    \cup {[op |-> "get_EP_Newton2",
           prog |-> get_EP_Newton2_body(CallerNames[s], CallerNames[t], CallerNames[d]),
           arg |-> <<s, t, d>>] :
              s \in CallerMatrices, t \in CallerVectors, d \in CallerVectors}
    \cup {[op |-> "minimize2",
           prog |-> minimize2_body(CallerNames[x], CallerNames[s], CallerNames[s1]),
           arg |-> <<x, s, s1>>] :
              x \in CallerVectors, s \in CallerMatrices, s1 \in CallerMatrices}
    \cup {[op |-> "get_torch", prog |-> get_torch_body(CallerNames[s], CallerNames[s1]),
           arg |-> <<s, s1>>] : s \in CallerMatrices, s1 \in CallerMatrices}

CallerEnv == [n \in {CallerNames[k] : k \in 1..NumCaller} |->
                CHOOSE k \in 1..NumCaller : CallerNames[k] = n]

InitHeap ==
    /\ op = "none"
    /\ arg = <<>>
    /\ ret = Ok(<<>>)
    /\ frame = NoFrame
    /\ store = [k \in 1..NumCaller |-> 0]

\* one call, start to return: the tensors the call created are dropped, the
\* caller's storages stay, with whatever the call did to them
CallOnStore ==
    \E c \in Programs :
        LET st == Exec(c.prog, CallerEnv, store)
        IN  /\ op' = c.op
            /\ arg' = c.arg
            /\ ret' = Ok(<<>>)
            /\ frame' = [pc |-> "returned",
                         created |-> Len(st) - NumCaller,
                         in_place |-> SumSeq(SubSeq(st, NumCaller + 1, Len(st)))]
            /\ store' = SubSeq(st, 1, NumCaller)

NextHeap == CallOnStore

SpecHeap == InitHeap /\ [][NextHeap]_vars

\* C5: after any sequence of calls every tensor the caller passed in holds
\* the values it held before: the in-place updates only ever touch tensors
\* created inside the call.
C5_InputsNotMutated ==
    \A k \in 1..Len(store) : store[k] = 0

\* a call updated tensors in place, all of them its own
C5_Witness ==
    /\ op = "minimize2" /\ arg[1] = 7
    /\ frame.in_place >= 2
    /\ store = [k \in 1..NumCaller |-> 0]

====
